---- MODULE Spec2Model ----
(***************************************************************************)
(* Model of the Lunex engine workstation bootstrap: scripts/Setup.py and   *)
(* the modules it drives (CheckPython.py, Vulkan.py, KTX.py).              *)
(*                                                                         *)
(* Setup.py is a top-to-bottom script.  Each numbered step of the script   *)
(* is one action; pc names the step that runs next.  The file system, the  *)
(* environment variables, the exit codes of the child processes and the    *)
(* operator's answers are inputs, drawn from small sets.  An exception     *)
(* nobody catches ends the interpreter with exit code 1.                   *)
(*                                                                         *)
(* Paths are sequences of tokens; the separators "/" and "\\" are tokens   *)
(* of their own, so that str.replace('\\', '/') and os.path.abspath are    *)
(* modelled by what they do to the separators.                             *)
(***************************************************************************)
EXTENDS Integers, Sequences, FiniteSets, TLC

(* Number of entries of the fixed submodules list that the model carries. *)
NumRepos == 2

VARIABLES
    pc,                 \* the step of Setup.py that runs next; "done" once the process has ended
    host,               \* os.name of the interpreter
    exitCode,           \* exit status of the process, meaningful when pc = "done"
    importable,         \* package name -> whether __import__ of it succeeds
    pkgIdx,             \* position in ValidatePackages
    pkgLog,             \* what ValidatePackage did, one record per call made
    calls,              \* git / rmtree calls made so far, in order
    result,             \* Setup.py's variable `result`
    dir,                \* repository index -> "missing" | "empty" | "nonempty"
    probe,              \* repository index -> whether its required file exists
    idx,                \* position of the for loop of step 3
    examined,           \* repository index -> what step 3 saw at its path ("none" before)
    missing_submodules, \* Setup.py's list `missing_submodules` (repository indices)
    all_ok,             \* Setup.py's variable `all_ok`
    continued,          \* the operator pressed Enter at the "continue anyway" prompt
    assimp_config,      \* vendor/assimp/include/assimp/config.h exists
    VULKAN_SDK,         \* Vulkan.VULKAN_SDK, read from the environment
    vkVendorValid,      \* Lunex/vendor/VulkanSDK holds an SDK with its header
    vulkanInstalled,    \* Setup.py's variable: "unset" before step 6, then "True" | "False"
    ktxLocalValid,      \* vendor/ktx/include/ktx.h exists
    ktxEnv,             \* os.environ.get('KTX_SDK')
    ktxEnvValid,        \* <KTX_SDK>/include/ktx.h exists
    KTX_SDK,            \* KTX.KTX_SDK
    ktxInstalled,       \* Setup.py's variable: "unset" before step 7, then "True" | "False"
    ktx_config,         \* content of ktx_config.lua, a sequence of lines
    written,            \* SDKs whose configuration file was written by this run
    downloads,          \* artifacts this run downloaded
    premakeExists,      \* the generator executable exists
    premake,            \* "notrun" | "ok" | "failed": the generator process
    reachedGenerator,   \* step 8 was entered
    summary,            \* the "Setup completado" summary was printed
    answers,            \* SDK -> the operator's answer to its install prompt ("none" | "yes" | "no")
    report,             \* what the summary printed: the banner, the lines with a check mark, the lines with a warning
    libs,               \* library artifact -> whether the file (or folder) exists
    vkLibsResult,       \* what CheckVulkanSDKDebugLibs returned: "uncalled" | "True" | "False"
    ktxLibsResult,      \* what CheckKTXSDKDebugLibs returned: "uncalled" | "True" | "False"
    warnings            \* artifacts the two functions reported as not found

vars == << pc, host, exitCode, importable, pkgIdx, pkgLog, calls, result, dir,
           probe, idx, examined, missing_submodules, all_ok, continued,
           assimp_config, VULKAN_SDK, vkVendorValid, vulkanInstalled,
           ktxLocalValid, ktxEnv, ktxEnvValid, KTX_SDK, ktxInstalled,
           ktx_config, written, downloads, premakeExists, premake,
           reachedGenerator, summary, answers, report, libs, vkLibsResult,
           ktxLibsResult, warnings >>

pkgVars   == << importable, pkgIdx, pkgLog >>
repoVars  == << calls, result, dir, probe, idx, examined >>
checkVars == << missing_submodules, all_ok, continued >>
vkVars    == << VULKAN_SDK, vkVendorValid, vulkanInstalled >>
ktxVars   == << ktxLocalValid, ktxEnv, ktxEnvValid, KTX_SDK, ktxInstalled,
                ktx_config, written >>
genVars   == << premakeExists, premake, reachedGenerator, summary >>
outVars   == << answers, report >>
libVars   == << libs, vkLibsResult, ktxLibsResult, warnings >>

-----------------------------------------------------------------------------
(* Fixed data of the scripts *)

(* CheckPython.ValidatePackages: the two packages, in call order. *)
packages == << "requests", "fake-useragent" >>

(* Setup.py `submodules`: (path, url, branch). *)
submodules == <<
    [path |-> "vendor/GLFW",     url |-> "https://github.com/glfw/glfw.git",               branch |-> "master"],
    [path |-> "vendor/ImGuiLib", url |-> "https://github.com/ocornut/imgui.git",           branch |-> "docking"],
    [path |-> "vendor/glm",      url |-> "https://github.com/g-truc/glm.git",              branch |-> "master"],
    [path |-> "vendor/ImGuizmo", url |-> "https://github.com/CedricGuillemet/ImGuizmo.git", branch |-> "master"],
    [path |-> "vendor/imnodes",  url |-> "https://github.com/Nelarius/imnodes.git",        branch |-> "master"],
    [path |-> "vendor/yaml-cpp", url |-> "https://github.com/jbeder/yaml-cpp.git",         branch |-> "master"],
    [path |-> "vendor/Box2D",    url |-> "https://github.com/erincatto/box2d.git",         branch |-> "main"],
    [path |-> "vendor/assimp",   url |-> "https://github.com/assimp/assimp.git",           branch |-> "master"],
    [path |-> "vendor/Bullet3",  url |-> "https://github.com/bulletphysics/bullet3.git",   branch |-> "master"] >>

(* Setup.py `required_files`: probe path -> name, in insertion order.  Entry *)
(* i is the probe of submodules[i].                                          *)
required_files == <<
    [probe |-> "vendor/GLFW/include/GLFW/glfw3.h",           name |-> "GLFW"],
    [probe |-> "vendor/ImGuiLib/imgui.h",                    name |-> "ImGui"],
    [probe |-> "vendor/glm/glm/glm.hpp",                     name |-> "GLM"],
    [probe |-> "vendor/ImGuizmo/ImGuizmo.h",                 name |-> "ImGuizmo"],
    [probe |-> "vendor/imnodes/imnodes.h",                   name |-> "imnodes"],
    [probe |-> "vendor/yaml-cpp/include/yaml-cpp/yaml.h",    name |-> "yaml-cpp"],
    [probe |-> "vendor/Box2D/include/box2d/box2d.h",         name |-> "Box2D"],
    [probe |-> "vendor/assimp/include/assimp/Importer.hpp",  name |-> "Assimp"],
    [probe |-> "vendor/Bullet3/src/btBulletDynamicsCommon.h", name |-> "Bullet3"] >>

(* The entries of both lists that the model carries. *)
Repos == 1 .. NumRepos

(* Exit codes a child process can return. *)
ExitCodes == {0, 1}

(* os.name *)
Hosts == {"nt", "posix"}

(* The value of a Python variable holding None. *)
None == << "None" >>

-----------------------------------------------------------------------------
(* CheckPython.py *)

(* install(package): check_call raises CalledProcessError when pip exits  *)
(* non-zero, and returns otherwise.                                        *)
install(code) == IF code = 0 THEN "installed" ELSE "raised"

(* ValidatePackage(package): the import succeeds, or the ImportError      *)
(* handler calls install; an exception of install leaves the handler.     *)
ValidatePackage(canImport, code) ==
    IF canImport THEN "present" ELSE install(code)

(* One call of ValidatePackage made by ValidatePackages.  An exception    *)
(* raised in it is caught nowhere: not in ValidatePackages, not at        *)
(* Setup.py line 13.                                                       *)
ValidatePackageStep ==
    /\ pc = "packages"
    /\ pkgIdx <= Len(packages)
    /\ \E code \in ExitCodes :
         LET p   == packages[pkgIdx]
             out == ValidatePackage(importable[p], code)
         IN  /\ pkgLog' = Append(pkgLog, [package |-> p, outcome |-> out])
             /\ IF out = "raised"
                   THEN /\ pc' = "done"
                        /\ exitCode' = 1
                        /\ UNCHANGED << importable, pkgIdx >>
                   ELSE /\ importable' = [importable EXCEPT ![p] = TRUE]
                        /\ pkgIdx' = pkgIdx + 1
                        /\ pc' = IF pkgIdx = Len(packages) THEN "bulk" ELSE "packages"
                        /\ UNCHANGED exitCode
    /\ UNCHANGED << host, repoVars, checkVars, assimp_config, vkVars, ktxVars,
                    downloads, genVars,
                    outVars, libVars >>

-----------------------------------------------------------------------------
(* Setup.py steps 2 and 3: the repositories *)

(* The calls the script makes on the repositories, as logged in `calls`:  *)
(* a git submodule call over all of them (repo 0) with the exit code the  *)
(* script got, a git clone --depth 1 -b <branch> <url> <path>, and a      *)
(* shutil.rmtree(path) with whether it raised.                             *)
GitCall(op, code) ==
    [op |-> op, repo |-> 0, url |-> "", branch |-> "", depth |-> 0, code |-> code]

CloneCall(i, code) ==
    [op |-> "clone", repo |-> i, url |-> submodules[i].url,
     branch |-> submodules[i].branch, depth |-> 1, code |-> code]

RmtreeCall(i, raised) ==
    [op |-> "rmtree", repo |-> i, url |-> "", branch |-> "", depth |-> 0,
     code |-> IF raised THEN 1 ELSE 0]

(* What a repository path can look like: directory state, probe present. *)
RepoStates ==
    { << "missing", FALSE >>, << "empty", FALSE >>,
      << "nonempty", FALSE >>, << "nonempty", TRUE >> }

(* git submodule update --init --recursive, as far as the listed paths go: *)
(* each path is left as it is or ends up populated.                        *)
AfterSubmoduleUpdate(d, p) ==
    { f \in [Repos -> RepoStates] :
        \A i \in Repos : f[i] = << d[i], p[i] >> \/ f[i][1] = "nonempty" }

(* git submodule foreach git reset --hard: a checkout that is there gets   *)
(* its tracked files back, so a probe may reappear.                        *)
AfterResetHard(d, p) ==
    { q \in [Repos -> BOOLEAN] :
        \A i \in Repos : q[i] = p[i] \/ (d[i] = "nonempty" /\ q[i]) }

(* A script that never resets and retries. *)
AfterFirstInitNoRetry(r) == "loop"

(* A script whose step 3 only runs after a failed bulk init. *)
AfterFirstInitLoopAsFallback(r) == IF r # 0 THEN "reset" ELSE "verify"

(* Setup.py line 21: where the script goes after the first bulk init.     *)
AfterFirstInit(r) == IF r # 0 THEN "reset" ELSE "loop"

(* Setup.py line 19: result = subprocess.call([git submodule update ...]) *)
BulkInit ==
    /\ pc = "bulk"
    /\ \E r \in ExitCodes, f \in AfterSubmoduleUpdate(dir, probe) :
         /\ result' = r
         /\ dir' = [i \in Repos |-> f[i][1]]
         /\ probe' = [i \in Repos |-> f[i][2]]
         /\ pc' = AfterFirstInit(r)
         /\ calls' = Append(calls, GitCall("init", r))
    /\ UNCHANGED << host, exitCode, pkgVars, idx, examined, checkVars,
                    assimp_config, vkVars, ktxVars, downloads, genVars,
                    outVars, libVars >>

(* Setup.py line 28: the exit code of the reset is dropped, and logged as 0. *)
ResetHard ==
    /\ pc = "reset"
    /\ \E q \in AfterResetHard(dir, probe) : probe' = q
    /\ calls' = Append(calls, GitCall("reset-hard", 0))
    /\ pc' = "clean"
    /\ UNCHANGED << host, exitCode, pkgVars, result, dir, idx, examined,
                    checkVars, assimp_config, vkVars, ktxVars, downloads, genVars,
                    outVars, libVars >>

(* Setup.py line 29: git clean -fd removes untracked files only; a        *)
(* checkout keeps its .git entry, so no listed path changes state.        *)
CleanSubmodules ==
    /\ pc = "clean"
    /\ calls' = Append(calls, GitCall("clean", 0))
    /\ pc' = "retry"
    /\ UNCHANGED << host, exitCode, pkgVars, result, dir, probe, idx, examined,
                    checkVars, assimp_config, vkVars, ktxVars, downloads, genVars,
                    outVars, libVars >>

(* Setup.py line 32: the second bulk init; its result is assigned and      *)
(* never read.                                                             *)
RetryInit ==
    /\ pc = "retry"
    /\ \E r \in ExitCodes, f \in AfterSubmoduleUpdate(dir, probe) :
         /\ result' = r
         /\ dir' = [i \in Repos |-> f[i][1]]
         /\ probe' = [i \in Repos |-> f[i][2]]
         /\ calls' = Append(calls, GitCall("init", r))
    /\ pc' = "loop"
    /\ UNCHANGED << host, exitCode, pkgVars, idx, examined, checkVars,
                    assimp_config, vkVars, ktxVars, downloads, genVars,
                    outVars, libVars >>

(* A test that sends every path to the clone branch. *)
NeedsCloneAll(d) == TRUE

(* A test that forgets the os.listdir half. *)
NeedsCloneMissingOnly(d) == d = "missing"

(* Setup.py line 51: not os.path.exists(path) or not os.listdir(path) *)

NeedsClone(d) == d = "missing" \/ d = "empty"

(* Where the loop of step 3 goes after entry i. *)
AfterEntry(i) == IF i = NumRepos THEN "verify" ELSE "loop"

(* Setup.py lines 69-70: the else branch, "ya existe". *)
LoopKeep ==
    /\ pc = "loop"
    /\ idx \in Repos
    /\ ~NeedsClone(dir[idx])
    /\ examined' = [examined EXCEPT ![idx] = dir[idx]]
    /\ idx' = idx + 1
    /\ pc' = AfterEntry(idx)
    /\ UNCHANGED << host, exitCode, pkgVars, calls, result, dir, probe,
                    checkVars, assimp_config, vkVars, ktxVars, downloads, genVars,
                    outVars, libVars >>

(* Setup.py lines 51-68: an existing (empty) directory is removed, an     *)
(* exception of rmtree being caught and printed; then the clone runs.  A  *)
(* clone that fails leaves the path as the removal left it.               *)
LoopClone ==
    /\ pc = "loop"
    /\ idx \in Repos
    /\ NeedsClone(dir[idx])
    /\ \E rmError \in BOOLEAN, r \in ExitCodes, hasProbe \in BOOLEAN :
         LET exists   == dir[idx] # "missing"
             removed  == IF exists /\ ~rmError THEN "missing" ELSE dir[idx]
             rmCalls  == IF exists THEN << RmtreeCall(idx, rmError) >> ELSE << >>
         IN  /\ (~exists => ~rmError)
             /\ (r # 0 => ~hasProbe)
             /\ calls' = calls \o rmCalls \o << CloneCall(idx, r) >>
             /\ result' = r
             /\ dir' = [dir EXCEPT ![idx] = IF r = 0 THEN "nonempty" ELSE removed]
             /\ probe' = [probe EXCEPT ![idx] = hasProbe]
    /\ examined' = [examined EXCEPT ![idx] = dir[idx]]
    /\ idx' = idx + 1
    /\ pc' = AfterEntry(idx)
    /\ UNCHANGED << host, exitCode, pkgVars, checkVars, assimp_config, vkVars,
                    ktxVars, downloads, genVars,
                    outVars, libVars >>

-----------------------------------------------------------------------------
(* Setup.py step 4: the probes *)

(* The loop without line 92, all_ok = False. *)
RECURSIVE CheckRequiredFilesKeepsFlag(_, _, _)
CheckRequiredFilesKeepsFlag(pr, i, acc) ==
    IF i > NumRepos THEN acc
    ELSE CheckRequiredFilesKeepsFlag(pr, i + 1,
            IF ~pr[i]
               THEN [all_ok  |-> acc.all_ok,
                     missing |-> Append(acc.missing, required_files[i])]
               ELSE acc)

(* Setup.py lines 87-94: the loop over required_files, from entry i on,   *)
(* acc holding all_ok and missing_submodules so far.                      *)
RECURSIVE CheckRequiredFiles(_, _, _)
CheckRequiredFiles(pr, i, acc) ==
    IF i > NumRepos THEN acc
    ELSE CheckRequiredFiles(pr, i + 1,
            IF ~pr[i]
               THEN [all_ok  |-> FALSE,
                     missing |-> Append(acc.missing, required_files[i])]
               ELSE acc)

(* Setup.py lines 72-107, up to the prompt. *)
VerifySubmodules ==
    /\ pc = "verify"
    /\ LET out == CheckRequiredFiles(probe, 1, [all_ok |-> TRUE, missing |-> << >>])
       IN  /\ all_ok' = out.all_ok
           /\ missing_submodules' = out.missing
           /\ pc' = IF out.all_ok THEN "assimp" ELSE "prompt"
    /\ UNCHANGED << host, exitCode, pkgVars, repoVars, continued, assimp_config,
                    vkVars, ktxVars, downloads, genVars,
                    outVars, libVars >>

(* Setup.py line 105: input("Presiona Enter para continuar de todos modos") *)
ContinueAnyway ==
    /\ pc = "prompt"
    /\ continued' = TRUE
    /\ pc' = "assimp"
    /\ UNCHANGED << host, exitCode, pkgVars, repoVars, missing_submodules, all_ok,
                    assimp_config, vkVars, ktxVars, downloads, genVars,
                    outVars, libVars >>

-----------------------------------------------------------------------------
(* Setup.py step 5 *)

(* The entry of `submodules` that holds Assimp. *)
AssimpRepo == CHOOSE i \in 1 .. Len(submodules) : submodules[i].path = "vendor/assimp"

(* Setup.py lines 109-129: config.h is written when it is not there;      *)
(* os.makedirs creates vendor/assimp/include/assimp on the way.           *)
ConfigureAssimp ==
    /\ pc = "assimp"
    /\ assimp_config' = TRUE
    /\ dir' = [i \in Repos |->
                 IF i = AssimpRepo /\ ~assimp_config THEN "nonempty" ELSE dir[i]]
    /\ pc' = "vulkan"
    /\ UNCHANGED << host, exitCode, pkgVars, calls, result, probe, idx, examined,
                    checkVars, vkVars, ktxVars, downloads, genVars,
                    outVars, libVars >>

-----------------------------------------------------------------------------
(* Paths *)

(* os.sep *)
Sep(h) == IF h = "nt" THEN "\\" ELSE "/"

(* The project root, the working directory after Setup.py line 7. *)
Cwd(h) == IF h = "nt" THEN << "C:", "\\", "Lunex" >>
                       ELSE << "/", "home", "/", "Lunex" >>

(* os.path.abspath of a relative path: joined to the working directory;   *)
(* on nt every "/" becomes "\\".                                           *)
abspath(h, p) ==
    Cwd(h) \o << Sep(h) >> \o
    [i \in 1 .. Len(p) |-> IF h = "nt" /\ p[i] = "/" THEN "\\" ELSE p[i]]

(* KTX.py line 12 *)
KTX_SDK_LOCAL_PATH == << "vendor", "/", "ktx" >>

(* Vulkan.py line 14 *)
LUNEX_VULKAN_VERSION == "1.3.290"

(* Vulkan.py line 15: the directory of VULKAN_SDK_EXE_PATH. *)
VULKAN_SDK_DIR == << "Lunex", "/", "vendor", "/", "VulkanSDK" >>

(* Values of the environment variable VULKAN_SDK. *)
VulkanEnvValues ==
    { None,
      << "C:", "\\", "VulkanSDK", "\\", "1.3.290", ".0" >>,
      << "C:", "\\", "VulkanSDK", "\\", "1.2.170", ".0" >> }

(* Values of the environment variable KTX_SDK. *)
KtxEnvValues ==
    { None,
      << "D:", "/", "sdk", "\\", "KTX-Software" >>,
      << "/", "opt", "/", "ktx" >> }

(* Content ktx_config.lua can have before the run: absent, or left by an  *)
(* earlier run.                                                            *)
OldConfigs ==
    { << >>,
      << [kind |-> "comment", key |-> "", value |-> << "Auto-generated by KTX.py" >>],
         [kind |-> "assign", key |-> "KTX_SDK_PATH", value |-> << "E:", "/", "old", "/", "ktx" >>] >> }

-----------------------------------------------------------------------------
(* Utils.py *)

(* The two SDKs of steps 6 and 7. *)
SDKs == { "vulkan", "ktx" }

(* Utils.YesOrNo(): the operator's answer. *)
YesOrNo == BOOLEAN

(* Utils.DownloadFile(url, path): the file arrives, or an exception is    *)
(* raised (KTX.py lines 47-52 and 108-116 catch it).                      *)
DownloadFile == { "ok", "raised" }

-----------------------------------------------------------------------------
(* Vulkan.py and Setup.py step 6 *)

(* Vulkan.py line 50: LUNEX_VULKAN_VERSION in VULKAN_SDK *)
HasVersion(sdk) == \E i \in 1 .. Len(sdk) : sdk[i] = LUNEX_VULKAN_VERSION

(* CheckVulkanSDK: the two branches that end in InstallVulkanPrompt.  The *)
(* vendor directory is not looked at.                                      *)
VulkanNeedsPrompt(sdk) == sdk = None \/ ~HasVersion(sdk)

(* InstallVulkanSDK: download, os.startfile (which only exists on nt),     *)
(* input, sys.exit(0).  Nothing catches an exception on the way.           *)
InstallVulkanSDK(h, dl) ==
    [ exit       |-> IF dl = "raised" \/ h # "nt" THEN 1 ELSE 0,
      downloaded |-> dl = "ok" ]

(* The environment variable is fixed for the life of the process, so the   *)
(* value Vulkan.py line 12 reads at import is drawn where it is first used.*)
VulkanFound ==
    /\ pc = "vulkan"
    /\ \E sdk \in VulkanEnvValues, vendor \in BOOLEAN :
         /\ ~VulkanNeedsPrompt(sdk)
         /\ VULKAN_SDK' = sdk
         /\ vkVendorValid' = vendor
    /\ vulkanInstalled' = "True"
    /\ pc' = "ktx"
    /\ UNCHANGED << host, exitCode, pkgVars, repoVars, checkVars, assimp_config,
                    ktxVars, downloads, genVars,
                    outVars, libVars >>

(* InstallVulkanPrompt answered no: CheckVulkanSDK returns False. *)
VulkanDeclined ==
    /\ pc = "vulkan"
    /\ \E sdk \in VulkanEnvValues, vendor \in BOOLEAN, answer \in YesOrNo :
         /\ VulkanNeedsPrompt(sdk)
         /\ ~answer
         /\ VULKAN_SDK' = sdk
         /\ vkVendorValid' = vendor
    /\ vulkanInstalled' = "False"
    /\ answers' = [answers EXCEPT !["vulkan"] = "no"]
    /\ pc' = "ktx"
    /\ UNCHANGED << host, exitCode, pkgVars, repoVars, checkVars, assimp_config,
                    ktxVars, downloads, genVars, report, libVars >>

(* InstallVulkanPrompt answered yes: InstallVulkanSDK ends the process.    *)
VulkanInstall ==
    /\ pc = "vulkan"
    /\ \E sdk \in VulkanEnvValues, vendor \in BOOLEAN, answer \in YesOrNo,
          dl \in DownloadFile :
         LET out == InstallVulkanSDK(host, dl)
         IN  /\ VulkanNeedsPrompt(sdk)
             /\ answer
             /\ VULKAN_SDK' = sdk
             /\ vkVendorValid' = vendor
             /\ downloads' = IF out.downloaded
                                THEN downloads \cup { "VulkanSDK.exe" }
                                ELSE downloads
             /\ exitCode' = out.exit
    /\ answers' = [answers EXCEPT !["vulkan"] = "yes"]
    /\ pc' = "done"
    /\ UNCHANGED << host, pkgVars, repoVars, checkVars, assimp_config,
                    vulkanInstalled, ktxVars, genVars, report, libVars >>

-----------------------------------------------------------------------------
(* KTX.py and Setup.py step 7 *)

(* The two searches in the other order. *)
GetKTXSDKPathEnvFirst(h, localValid, env, envValid) ==
    IF env # None /\ env # << >> /\ envValid THEN env
    ELSE IF localValid THEN abspath(h, KTX_SDK_LOCAL_PATH)
    ELSE None

(* GetKTXSDKPath: vendor/ktx first, then the environment variable. *)
GetKTXSDKPath(h, localValid, env, envValid) ==
    IF localValid THEN abspath(h, KTX_SDK_LOCAL_PATH)
    ELSE IF env # None /\ env # << >> /\ envValid THEN env
    ELSE None

(* The path written as it is. *)
NormalizedPathRaw(ktx_path) == ktx_path

(* SaveKTXPath line 301: ktx_path.replace('\\', '/') *)
NormalizedPath(ktx_path) ==
    [i \in 1 .. Len(ktx_path) |-> IF ktx_path[i] = "\\" THEN "/" ELSE ktx_path[i]]

(* SaveKTXPath: the two lines written over ktx_config.lua. *)
SaveKTXPath(ktx_path) ==
    << [kind |-> "comment", key |-> "", value |-> << "Auto-generated by KTX.py" >>],
       [kind |-> "assign", key |-> "KTX_SDK_PATH", value |-> NormalizedPath(ktx_path)] >>

(* What step 7 can find: vendor/ktx valid or not, the variable and whether *)
(* the directory it names holds the header.                                *)
KtxInputs ==
    { in \in [localValid : BOOLEAN, env : KtxEnvValues, envValid : BOOLEAN] :
        in.envValid => in.env # None }

(* CheckKTXSDK with an SDK located: the path is saved, True is returned.   *)
(* KTX.py line 34 also sets KTX_SDK at import; line 277 assigns it again   *)
(* before anything reads it.                                               *)
KtxFound ==
    /\ pc = "ktx"
    /\ \E in \in KtxInputs :
         LET sdk == GetKTXSDKPath(host, in.localValid, in.env, in.envValid)
         IN  /\ sdk # None
             /\ ktxLocalValid' = in.localValid
             /\ ktxEnv' = in.env
             /\ ktxEnvValid' = in.envValid
             /\ KTX_SDK' = sdk
             /\ ktx_config' = SaveKTXPath(sdk)
    /\ written' = written \cup { "ktx" }
    /\ ktxInstalled' = "True"
    /\ pc' = "premake"
    /\ UNCHANGED << host, exitCode, pkgVars, repoVars, checkVars, assimp_config,
                    vkVars, downloads, genVars,
                    outVars, libVars >>

(* InstallKTXPrompt answered no. *)
KtxDeclined ==
    /\ pc = "ktx"
    /\ \E in \in KtxInputs, answer \in YesOrNo :
         /\ GetKTXSDKPath(host, in.localValid, in.env, in.envValid) = None
         /\ ~answer
         /\ ktxLocalValid' = in.localValid
         /\ ktxEnv' = in.env
         /\ ktxEnvValid' = in.envValid
    /\ KTX_SDK' = None
    /\ ktxInstalled' = "False"
    /\ answers' = [answers EXCEPT !["ktx"] = "no"]
    /\ pc' = "premake"
    /\ UNCHANGED << host, exitCode, pkgVars, repoVars, checkVars, assimp_config,
                    vkVars, ktx_config, written, downloads, genVars, report,
                    libVars >>

(* DownloadBinaries: the download, os.startfile (AttributeError off nt),   *)
(* and the look for ktx.dll under Program Files; every exception is caught.*)
DownloadBinaries(h, dl, dllFound) ==
    [ ok         |-> dl = "ok" /\ h = "nt" /\ dllFound,
      downloaded |-> dl = "ok" ]

(* InstallKTXSDK: headers from the source archive, then the binaries, then *)
(* the SDK is located again and, when found, its path saved.               *)
InstallKTXSDK(h, in, srcDl, extracted, gotHeader, binDl, dllFound) ==
    LET srcOk   == srcDl = "ok" /\ extracted
        local   == in.localValid \/ (srcDl = "ok" /\ gotHeader)
        bin     == DownloadBinaries(h, binDl, dllFound)
        sdk     == GetKTXSDKPath(h, local, in.env, in.envValid)
        located == srcOk /\ bin.ok /\ sdk # None
    IN  [ ok         |-> located,
          localValid |-> local,
          sdk        |-> IF srcOk /\ bin.ok THEN sdk ELSE None,
          saved      |-> located,
          downloaded |-> (IF srcDl = "ok" THEN { "ktx-source.zip" } ELSE { })
                         \cup (IF srcOk /\ bin.downloaded THEN { "KTX-Installer.exe" } ELSE { }) ]

(* InstallKTXPrompt answered yes. *)
KtxInstall ==
    /\ pc = "ktx"
    /\ \E in \in KtxInputs, answer \in YesOrNo, srcDl \in DownloadFile,
          extracted \in BOOLEAN, gotHeader \in BOOLEAN, binDl \in DownloadFile,
          dllFound \in BOOLEAN :
         LET out == InstallKTXSDK(host, in, srcDl, extracted, gotHeader, binDl, dllFound)
         IN  /\ GetKTXSDKPath(host, in.localValid, in.env, in.envValid) = None
             /\ answer
             /\ ktxLocalValid' = out.localValid
             /\ ktxEnv' = in.env
             /\ ktxEnvValid' = in.envValid
             /\ KTX_SDK' = out.sdk
             /\ ktx_config' = IF out.saved THEN SaveKTXPath(out.sdk) ELSE ktx_config
             /\ written' = IF out.saved THEN written \cup { "ktx" } ELSE written
             /\ downloads' = downloads \cup out.downloaded
             /\ ktxInstalled' = IF out.ok THEN "True" ELSE "False"
    /\ answers' = [answers EXCEPT !["ktx"] = "yes"]
    /\ pc' = "premake"
    /\ UNCHANGED << host, exitCode, pkgVars, repoVars, checkVars, assimp_config,
                    vkVars, genVars, report, libVars >>

-----------------------------------------------------------------------------
(* The library checks of both SDKs *)

(* Setup.py lines 134-135 and 139-140 call the two functions after a check *)
(* that returned True and drop what they return; the functions print and   *)
(* change nothing.  They are therefore applied on their own, to every      *)
(* value of the module global and every state of the files they look at.   *)

(* Vulkan.py lines 81-84: required_libs *)
required_libs == { "vulkan-1.lib", "shaderc_combined.lib" }

(* KTX.py lines 322 and 329: the two files whose absence is only reported. *)
KtxOptionalLibs == { "bin/ktx.dll", "lib/ktx.lib" }

(* The paths, relative to the SDK root, that the two functions test. *)
LibArtifacts == { "Lib" } \cup required_libs \cup { "include/ktx.h" } \cup KtxOptionalLibs

(* File systems: a file of the Lib folder exists only when the folder does. *)
LibStates ==
    { fs \in [LibArtifacts -> BOOLEAN] :
        \A lib \in required_libs : fs[lib] => fs["Lib"] }

(* CheckVulkanSDKDebugLibs: False without the variable, without the Lib    *)
(* folder, and when either required library is missing.  No header is      *)
(* looked for.                                                             *)
CheckVulkanSDKDebugLibs(sdk, fs) ==
    IF sdk = None THEN [ ret |-> FALSE, missing |-> { } ]
    ELSE IF ~fs["Lib"] THEN [ ret |-> FALSE, missing |-> { "Lib" } ]
    ELSE LET missing_libs == { lib \in required_libs : ~fs[lib] }
         IN  [ ret |-> missing_libs = { }, missing |-> missing_libs ]

(* ktx.dll is required too. *)
CheckKTXSDKDebugLibsDllRequired(sdk, fs) ==
    IF sdk = None THEN [ ret |-> FALSE, missing |-> { } ]
    ELSE IF ~fs["include/ktx.h"] THEN [ ret |-> FALSE, missing |-> { "include/ktx.h" } ]
    ELSE [ ret     |-> fs["bin/ktx.dll"],
           missing |-> { a \in KtxOptionalLibs : ~fs[a] } ]

(* CheckKTXSDKDebugLibs: False without an SDK path and without ktx.h; a    *)
(* missing ktx.dll or ktx.lib is printed as ADVERTENCIA and True returned. *)
CheckKTXSDKDebugLibs(sdk, fs) ==
    IF sdk = None THEN [ ret |-> FALSE, missing |-> { } ]
    ELSE IF ~fs["include/ktx.h"] THEN [ ret |-> FALSE, missing |-> { "include/ktx.h" } ]
    ELSE [ ret     |-> TRUE,
           missing |-> { a \in KtxOptionalLibs : ~fs[a] } ]

(* Python's True / False as the model writes them. *)
PyBool(b) == IF b THEN "True" ELSE "False"

CallCheckVulkanSDKDebugLibs ==
    /\ pc = "libs"
    /\ vkLibsResult = "uncalled"
    /\ LET out == CheckVulkanSDKDebugLibs(VULKAN_SDK, libs)
       IN  /\ vkLibsResult' = PyBool(out.ret)
           /\ warnings' = warnings \cup out.missing
    /\ UNCHANGED << pc, host, exitCode, pkgVars, repoVars, checkVars, assimp_config,
                    vkVars, ktxVars, downloads, genVars, outVars, libs,
                    ktxLibsResult >>

CallCheckKTXSDKDebugLibs ==
    /\ pc = "libs"
    /\ ktxLibsResult = "uncalled"
    /\ LET out == CheckKTXSDKDebugLibs(KTX_SDK, libs)
       IN  /\ ktxLibsResult' = PyBool(out.ret)
           /\ warnings' = warnings \cup out.missing
    /\ UNCHANGED << pc, host, exitCode, pkgVars, repoVars, checkVars, assimp_config,
                    vkVars, ktxVars, downloads, genVars, outVars, libs,
                    vkLibsResult >>

-----------------------------------------------------------------------------
(* Setup.py step 8 and the summary *)

(* Setup.py lines 143-156: what the generator step does with the          *)
(* executable present or not and the exit code r of the generator.  On nt *)
(* a missing executable and a non-zero exit code end in sys.exit(1); off  *)
(* nt subprocess.call raises FileNotFoundError for a missing executable   *)
(* and its return value is dropped.                                       *)
Generate(h, exists, r) ==
    IF ~exists
       THEN [halt |-> TRUE, ran |-> "notrun"]
       ELSE [halt |-> h = "nt" /\ r # 0,
             ran  |-> IF r = 0 THEN "ok" ELSE "failed"]

GenerateProjectFiles ==
    /\ pc = "premake"
    /\ \E exists \in BOOLEAN, r \in ExitCodes :
         LET out == Generate(host, exists, r)
         IN  /\ (~exists => r = 0)
             /\ premakeExists' = exists
             /\ premake' = out.ran
             /\ pc' = IF out.halt THEN "done" ELSE "summary"
             /\ exitCode' = IF out.halt THEN 1 ELSE exitCode
    /\ reachedGenerator' = TRUE
    /\ UNCHANGED << host, pkgVars, repoVars, checkVars, assimp_config, vkVars,
                    ktxVars, downloads, summary, outVars, libVars >>

(* Nothing printed yet. *)
NoReport == [ completed |-> FALSE, ok |-> { }, warned |-> { } ]

(* Setup.py lines 162-168: the component lines printed with a check mark  *)
(* whatever the run found.                                                *)
FixedLines == { "Box2D", "Bullet3", "Assimp", "GLFW", "ImGui", "imnodes", "Vulkan SDK" }

(* Setup.py lines 158-172: the banner "Setup completado correctamente!",  *)
(* the fixed lines, and the KTX line, which is the only one that reads a  *)
(* variable (`if ktxInstalled:`).                                         *)
FinalSummary(ktx) ==
    [ completed |-> TRUE,
      ok        |-> FixedLines \cup (IF ktx = "True" THEN { "KTX-Software" } ELSE { }),
      warned    |-> IF ktx = "True" THEN { } ELSE { "KTX-Software" } ]

(* Setup.py lines 158-177: the summary; the script ends, exit code 0. *)
PrintSummary ==
    /\ pc = "summary"
    /\ summary' = TRUE
    /\ report' = FinalSummary(ktxInstalled)
    /\ exitCode' = 0
    /\ pc' = "done"
    /\ UNCHANGED << host, pkgVars, repoVars, checkVars, assimp_config, vkVars,
                    ktxVars, downloads, premakeExists, premake, reachedGenerator,
                    answers, libVars >>

-----------------------------------------------------------------------------
(* The run *)

(* What no step has assigned yet. *)
SdkUnread ==
    /\ VULKAN_SDK = None
    /\ vkVendorValid = FALSE
    /\ vulkanInstalled = "unset"
    /\ ktxLocalValid = FALSE
    /\ ktxEnv = None
    /\ ktxEnvValid = FALSE
    /\ KTX_SDK = None
    /\ ktxInstalled = "unset"
    /\ ktx_config \in OldConfigs
    /\ written = { }
    /\ downloads = { }
    /\ premakeExists = FALSE
    /\ premake = "notrun"
    /\ reachedGenerator = FALSE
    /\ summary = FALSE
    /\ answers = [s \in SDKs |-> "none"]
    /\ report = NoReport
    /\ libs = [a \in LibArtifacts |-> FALSE]
    /\ vkLibsResult = "uncalled"
    /\ ktxLibsResult = "uncalled"
    /\ warnings = { }

(* The interpreter starts Setup.py: any host, any set of packages already *)
(* importable, any state of the listed repository paths.                  *)
Init ==
    /\ pc = "packages"
    /\ host \in Hosts
    /\ exitCode = 0
    /\ importable \in [{ packages[k] : k \in 1 .. Len(packages) } -> BOOLEAN]
    /\ pkgIdx = 1
    /\ pkgLog = << >>
    /\ calls = << >>
    /\ result = 0
    /\ \E f \in [Repos -> RepoStates] :
         /\ dir = [i \in Repos |-> f[i][1]]
         /\ probe = [i \in Repos |-> f[i][2]]
    /\ idx = 1
    /\ examined = [i \in Repos |-> "none"]
    /\ missing_submodules = << >>
    /\ all_ok = TRUE
    /\ continued = FALSE
    /\ assimp_config \in BOOLEAN
    /\ SdkUnread

Next ==
    \/ ValidatePackageStep
    \/ BulkInit
    \/ ResetHard
    \/ CleanSubmodules
    \/ RetryInit
    \/ LoopKeep
    \/ LoopClone
    \/ VerifySubmodules
    \/ ContinueAnyway
    \/ ConfigureAssimp
    \/ VulkanFound
    \/ VulkanDeclined
    \/ VulkanInstall
    \/ KtxFound
    \/ KtxDeclined
    \/ KtxInstall
    \/ GenerateProjectFiles
    \/ PrintSummary

Spec == Init /\ [][Next]_vars

(* The run up to the end of step 4: packages and repositories. *)
NextRepos ==
    \/ ValidatePackageStep
    \/ BulkInit
    \/ ResetHard
    \/ CleanSubmodules
    \/ RetryInit
    \/ LoopKeep
    \/ LoopClone
    \/ VerifySubmodules
    \/ ContinueAnyway

SpecRepos == Init /\ [][NextRepos]_vars

(* The run from step 6 on.  It starts in the state in which a run enters  *)
(* step 6 when every package was importable, the first bulk init exited 0 *)
(* and every listed path was populated with its probe.                    *)
InitSDK ==
    /\ pc = "vulkan"
    /\ host \in Hosts
    /\ exitCode = 0
    /\ importable = [n \in { packages[k] : k \in 1 .. Len(packages) } |-> TRUE]
    /\ pkgIdx = Len(packages) + 1
    /\ pkgLog = [k \in 1 .. Len(packages) |-> [package |-> packages[k], outcome |-> "present"]]
    /\ calls = << GitCall("init", 0) >>
    /\ result = 0
    /\ dir = [i \in Repos |-> "nonempty"]
    /\ probe = [i \in Repos |-> TRUE]
    /\ idx = NumRepos + 1
    /\ examined = [i \in Repos |-> "nonempty"]
    /\ missing_submodules = << >>
    /\ all_ok = TRUE
    /\ continued = FALSE
    /\ assimp_config = TRUE
    /\ SdkUnread

NextSDK ==
    \/ VulkanFound
    \/ VulkanDeclined
    \/ VulkanInstall
    \/ KtxFound
    \/ KtxDeclined
    \/ KtxInstall
    \/ GenerateProjectFiles
    \/ PrintSummary

SpecSDK == InitSDK /\ [][NextSDK]_vars

(* The values KTX.KTX_SDK can hold: None, or what GetKTXSDKPath returned. *)
KtxSdkValues(h) == { abspath(h, KTX_SDK_LOCAL_PATH) } \cup KtxEnvValues

(* The two library checks called on their own: any host, any value of the *)
(* two module globals, any state of the files at the time of the call.    *)
InitLibs ==
    /\ pc = "libs"
    /\ host \in Hosts
    /\ exitCode = 0
    /\ importable = [n \in { packages[k] : k \in 1 .. Len(packages) } |-> TRUE]
    /\ pkgIdx = Len(packages) + 1
    /\ pkgLog = [k \in 1 .. Len(packages) |-> [package |-> packages[k], outcome |-> "present"]]
    /\ calls = << GitCall("init", 0) >>
    /\ result = 0
    /\ dir = [i \in Repos |-> "nonempty"]
    /\ probe = [i \in Repos |-> TRUE]
    /\ idx = NumRepos + 1
    /\ examined = [i \in Repos |-> "nonempty"]
    /\ missing_submodules = << >>
    /\ all_ok = TRUE
    /\ continued = FALSE
    /\ assimp_config = TRUE
    /\ VULKAN_SDK \in VulkanEnvValues
    /\ vkVendorValid = FALSE
    /\ vulkanInstalled = "unset"
    /\ ktxLocalValid = FALSE
    /\ ktxEnv = None
    /\ ktxEnvValid = FALSE
    /\ KTX_SDK \in KtxSdkValues(host)
    /\ ktxInstalled = "unset"
    /\ ktx_config \in OldConfigs
    /\ written = { }
    /\ downloads = { }
    /\ premakeExists = FALSE
    /\ premake = "notrun"
    /\ reachedGenerator = FALSE
    /\ summary = FALSE
    /\ answers = [s \in SDKs |-> "none"]
    /\ report = NoReport
    /\ libs \in LibStates
    /\ vkLibsResult = "uncalled"
    /\ ktxLibsResult = "uncalled"
    /\ warnings = { }

NextLibs ==
    \/ CallCheckVulkanSDKDebugLibs
    \/ CallCheckKTXSDKDebugLibs

SpecLibs == InitLibs /\ [][NextLibs]_vars

-----------------------------------------------------------------------------
(* Properties *)

(* Step 2 is over: the bulk init, and its retry when there was one. *)
StepTwoDone == calls # << >> /\ pc \notin { "reset", "clean", "retry" }

(* Step 4 has run.  The process only ends before it when a package        *)
(* install raised, and then no git call was made.                          *)
VerifyDone ==
    \/ pc \in { "prompt", "assimp", "vulkan", "ktx", "premake", "summary" }
    \/ pc = "done" /\ calls # << >>

(* The calls over all submodules, in order, and their names. *)
BulkCalls == SelectSeq(calls, LAMBDA c : c.repo = 0)

BulkOps == [k \in 1 .. Len(BulkCalls) |-> BulkCalls[k].op]

(* s is an initial part of t. *)
IsPrefix(s, t) == Len(s) <= Len(t) /\ \A k \in 1 .. Len(s) : s[k] = t[k]

(* C1: when the install of a missing package exits non-zero, the run still *)
(* goes on to the next package: a run that has ended has made every call   *)
(* of ValidatePackage, whatever an install returned.                       *)
C1_InstallFailureDoesNotAbort ==
    (pc = "done" /\ \E k \in 1 .. Len(pkgLog) : pkgLog[k].outcome = "raised")
        => Len(pkgLog) = Len(packages)

(* C2: on every host, once the generator step found the executable missing *)
(* or the generator returned non-zero, the process has ended with a        *)
(* non-zero exit code and the summary is not printed.                      *)
C2_GeneratorFailFast ==
    (reachedGenerator /\ (~premakeExists \/ premake = "failed"))
        => (pc = "done" /\ exitCode # 0 /\ ~summary)

(* C3: a run ends with a non-zero exit code only if the generator          *)
(* executable was missing or the generator returned non-zero.              *)
C3_NonZeroOnlyFromGenerator ==
    (pc = "done" /\ exitCode # 0)
        => (reachedGenerator /\ (~premakeExists \/ premake = "failed"))

(* C4: whatever the package, repository and SDK steps return and whatever  *)
(* the operator answers, a run does not end before the generator step.     *)
C4_PipelineReachesGenerator ==
    pc = "done" => reachedGenerator

(* C5: the first call is the bulk init.  When it exits 0 no reset, clean   *)
(* or second init follows.  When it exits non-zero, reset-hard, clean and  *)
(* one more init follow in that order, and never a third init; when that   *)
(* retry fails too, the loop of step 3 has seen every entry once it is     *)
(* over.  The loop takes the entries in list order.                        *)
C5_ResetCleanRetryOnce ==
    /\ calls # << >> =>
         /\ calls[1].op = "init" /\ calls[1].repo = 0
         /\ calls[1].code = 0 => BulkOps = << "init" >>
         /\ calls[1].code # 0 =>
              /\ IsPrefix(BulkOps, << "init", "reset-hard", "clean", "init" >>)
              /\ IsPrefix(BulkOps, [k \in 1 .. Len(BulkOps) |-> calls[k].op])
              /\ StepTwoDone => BulkOps = << "init", "reset-hard", "clean", "init" >>
         /\ (StepTwoDone /\ pc # "loop" /\ Len(BulkCalls) = 4 /\ BulkCalls[4].code # 0)
              => \A i \in Repos : examined[i] # "none"
    /\ \A i \in Repos : examined[i] # "none" <=> i < idx

(* C5 witness: both bulk inits failed and the loop, now over, cloned. *)
C5_Witness ==
    /\ pc = "verify"
    /\ Len(BulkCalls) = 4
    /\ BulkCalls[4].code # 0
    /\ \E k \in 1 .. Len(calls) : calls[k].op = "clone"

(* C6: a path that step 3 found existing and non-empty is not removed and  *)
(* not cloned into, and stays as it is; when its probe is missing, step 4  *)
(* lists it in missing_submodules.                                         *)
C6_NonEmptyLeftAlone ==
    \A i \in Repos :
        examined[i] = "nonempty" =>
            /\ \A k \in 1 .. Len(calls) : calls[k].repo # i
            /\ dir[i] = "nonempty"
            /\ (VerifyDone /\ ~probe[i]) =>
                  \E k \in 1 .. Len(missing_submodules) :
                      missing_submodules[k] = required_files[i]

(* C6 witness: a non-empty path without its probe, after step 4. *)
C6_Witness ==
    /\ VerifyDone
    /\ \E i \in Repos : examined[i] = "nonempty" /\ ~probe[i]
    /\ \E i \in Repos : examined[i] # "nonempty"

(* C7: for a path that step 3 found existing and empty, rmtree was called  *)
(* on it and right after, whether or not rmtree raised, git clone          *)
(* --depth 1 -b <its branch> <its url> into that path.                     *)
C7_EmptyRemovedThenCloned ==
    \A i \in Repos :
        examined[i] = "empty" =>
            \E k \in 1 .. Len(calls) - 1 :
                /\ calls[k].op = "rmtree" /\ calls[k].repo = i
                /\ calls[k + 1].op = "clone" /\ calls[k + 1].repo = i
                /\ calls[k + 1].depth = 1
                /\ calls[k + 1].branch = submodules[i].branch
                /\ calls[k + 1].url = submodules[i].url

(* C7 witness: an empty path whose removal raised. *)
C7_Witness ==
    \E i \in Repos :
        /\ examined[i] = "empty"
        /\ \E k \in 1 .. Len(calls) :
               calls[k].op = "rmtree" /\ calls[k].repo = i /\ calls[k].code # 0

(* The entries of required_files whose probe is missing, in list order. *)
MissingProbes ==
    LET all == [i \in Repos |-> i]
        bad == SelectSeq(all, LAMBDA i : ~probe[i])
    IN  [k \in 1 .. Len(bad) |-> required_files[bad[k]]]

(* C8: after step 4, all_ok holds exactly when missing_submodules is       *)
(* empty, and then every probe exists; missing_submodules lists exactly    *)
(* the entries whose probe is missing; with all_ok false the process has   *)
(* not ended at step 4: it waits for the operator and then goes on.        *)
C8_AllOkIffNothingMissing ==
    VerifyDone =>
        /\ all_ok <=> missing_submodules = << >>
        /\ all_ok => \A i \in Repos : probe[i]
        /\ missing_submodules = MissingProbes
        /\ ~all_ok => (pc = "prompt" \/ continued)

(* C8 witness: probes were missing and the operator went on to step 5. *)
C8_Witness ==
    /\ pc = "assimp"
    /\ ~all_ok
    /\ continued
    /\ Len(missing_submodules) = NumRepos

(* C9, as amended: when step 7 located the texture-compression SDK, the  *)
(* path it holds is the vendor path whenever vendor/ktx is valid, also     *)
(* with a valid environment root; it is the environment value only when    *)
(* vendor/ktx is not valid, and nothing else.  The graphics-SDK locator    *)
(* has no vendor search: what it holds is the environment value, also      *)
(* when the vendor directory is valid.                                     *)
C9_KtxVendorFirstVulkanEnvOnly ==
    /\ ktxInstalled = "True" =>
         /\ ktxLocalValid => KTX_SDK = abspath(host, KTX_SDK_LOCAL_PATH)
         /\ ~ktxLocalValid => (ktxEnvValid /\ KTX_SDK = ktxEnv)
         /\ KTX_SDK \in { abspath(host, KTX_SDK_LOCAL_PATH), ktxEnv }
         /\ KTX_SDK # None
    /\ vulkanInstalled = "True" =>
         /\ VULKAN_SDK \in VulkanEnvValues \ { None }
         /\ VULKAN_SDK # abspath(host, VULKAN_SDK_DIR)

(* C9 witness: both KTX locations valid, and the SDK located. *)
C9_Witness ==
    /\ ktxInstalled = "True"
    /\ ktxLocalValid
    /\ ktxEnvValid
    /\ ktxEnv # None
    /\ vulkanInstalled = "True"
    /\ vkVendorValid

(* C9 as stated: each of the two locators returns the vendor path when     *)
(* both the vendor directory and the environment root are valid.           *)
C9_BothLocatorsVendorFirst ==
    /\ (ktxInstalled = "True" /\ ktxLocalValid /\ ktxEnvValid) =>
           KTX_SDK = abspath(host, KTX_SDK_LOCAL_PATH)
    /\ (vulkanInstalled = "True" /\ vkVendorValid) =>
           VULKAN_SDK = abspath(host, VULKAN_SDK_DIR)

(* p with every "\\" replaced by "/", said without the replacement. *)
IsForwardSlashFormOf(v, p) ==
    /\ Len(v) = Len(p)
    /\ \A i \in 1 .. Len(p) :
         /\ v[i] # "\\"
         /\ v[i] = p[i] \/ (p[i] = "\\" /\ v[i] = "/")

Installed(s) == IF s = "vulkan" THEN vulkanInstalled ELSE ktxInstalled

InstallerFiles(s) ==
    IF s = "vulkan" THEN { "VulkanSDK.exe" } ELSE { "ktx-source.zip", "KTX-Installer.exe" }

SummaryLine(s) == IF s = "vulkan" THEN "Vulkan SDK" ELSE "KTX-Software"

(* C11: for each SDK, once the operator has answered no to its install    *)
(* prompt the check has returned False, none of its installer files was   *)
(* downloaded and no configuration written, a finished run has entered    *)
(* the generator step, a printed summary carries that SDK's line as a     *)
(* warning and not with a check mark, and a run whose generator exited 0  *)
(* ends with exit code 0.                                                 *)
C11_DeclinedSdkReportedNotInstalled ==
    \A s \in SDKs :
        answers[s] = "no" =>
            /\ Installed(s) = "False"
            /\ downloads \cap InstallerFiles(s) = { }
            /\ s \notin written
            /\ (pc = "done" => reachedGenerator)
            /\ (summary => /\ SummaryLine(s) \notin report.ok
                           /\ SummaryLine(s) \in report.warned)
            /\ ((pc = "done" /\ premake = "ok") => exitCode = 0)

(* C12: CheckKTXSDKDebugLibs, called with an SDK path, returns True       *)
(* exactly when include/ktx.h exists, whatever ktx.dll and ktx.lib do, and *)
(* every missing one of the three is reported; CheckVulkanSDKDebugLibs,   *)
(* called with VULKAN_SDK set, looks for no header and returns True       *)
(* exactly when the Lib folder and both required libraries exist.         *)
C12_KtxHeaderOnlyVulkanLibsRequired ==
    /\ (ktxLibsResult # "uncalled" /\ KTX_SDK # None) =>
           /\ ktxLibsResult = PyBool(libs["include/ktx.h"])
           /\ (libs["include/ktx.h"] =>
                  \A a \in KtxOptionalLibs : a \in warnings <=> ~libs[a])
           /\ (~libs["include/ktx.h"] => "include/ktx.h" \in warnings)
    /\ (vkLibsResult # "uncalled" /\ VULKAN_SDK # None) =>
           vkLibsResult = PyBool(libs["Lib"] /\ \A lib \in required_libs : libs[lib])
    /\ (ktxLibsResult # "uncalled" /\ KTX_SDK = None) => ktxLibsResult = "False"
    /\ (vkLibsResult # "uncalled" /\ VULKAN_SDK = None) => vkLibsResult = "False"

(* Both functions were called with an SDK; the KTX one returned True with *)
(* ktx.dll and ktx.lib missing, the Vulkan one False with a library       *)
(* missing from an existing Lib folder.                                   *)
C12_Witness ==
    /\ KTX_SDK # None
    /\ ktxLibsResult = "True"
    /\ KtxOptionalLibs \subseteq warnings
    /\ VULKAN_SDK # None
    /\ libs["Lib"]
    /\ ~libs["shaderc_combined.lib"]
    /\ vkLibsResult = "False"

(* C12 as stated: for each SDK the check of a located installation fails  *)
(* only when the header is missing, and still succeeds when a library     *)
(* artifact is missing.                                                   *)
C12_OnlyMissingHeaderFails ==
    /\ (ktxLibsResult = "False" /\ KTX_SDK # None) => ~libs["include/ktx.h"]
    /\ (ktxLibsResult # "uncalled" /\ KTX_SDK # None /\ libs["include/ktx.h"]) =>
           ktxLibsResult = "True"
    /\ (vkLibsResult # "uncalled" /\ VULKAN_SDK # None
          /\ \E lib \in required_libs : ~libs[lib]) =>
           vkLibsResult = "True"

(* C13: the loop of step 3 runs in every run that gets past step 2,       *)
(* whatever the bulk init and its retry returned: once it is over every   *)
(* entry was examined.  It removes and clones only where it is needed:    *)
(* every rmtree and clone is for an entry found missing or empty, rmtree  *)
(* only for one found empty, and each such entry got its clone.           *)
C13_LoopAlwaysRunsClonesOnlyMissingOrEmpty ==
    /\ (StepTwoDone /\ pc # "loop") => \A i \in Repos : examined[i] # "none"
    /\ \A k \in 1 .. Len(calls) :
           calls[k].repo # 0 =>
               /\ calls[k].op \in { "rmtree", "clone" }
               /\ NeedsClone(examined[calls[k].repo])
               /\ (calls[k].op = "rmtree" => examined[calls[k].repo] = "empty")
    /\ \A i \in Repos :
           (examined[i] # "none" /\ NeedsClone(examined[i])) =>
               \E k \in 1 .. Len(calls) : calls[k].op = "clone" /\ calls[k].repo = i

(* C13 witness: the first bulk init exited 0, there was no retry, and the *)
(* loop, now over, removed one path and cloned.                           *)
C13_Witness ==
    /\ pc = "verify"
    /\ Len(BulkCalls) = 1
    /\ BulkCalls[1].code = 0
    /\ \E k \in 1 .. Len(calls) : calls[k].op = "rmtree"
    /\ \E k \in 1 .. Len(calls) : calls[k].op = "clone" /\ calls[k].code = 0

(* C13 as stated: the loop of step 3 examines an entry only after the     *)
(* bulk init and its retry both exited non-zero, and a run in which a     *)
(* bulk init exited 0 makes no rmtree and no clone.                       *)
C13_LoopOnlyAfterBothInitsFailed ==
    /\ (\E i \in Repos : examined[i] # "none") =>
           /\ Len(BulkCalls) = 4
           /\ BulkCalls[1].code # 0
           /\ BulkCalls[4].code # 0
    /\ (\E k \in 1 .. Len(BulkCalls) :
            BulkCalls[k].op = "init" /\ BulkCalls[k].code = 0) =>
           \A k \in 1 .. Len(calls) : calls[k].repo = 0

(* Step 4 found the probe of entry i. *)
ProbeFound(i) ==
    \A k \in 1 .. Len(missing_submodules) : missing_submodules[k] # required_files[i]

(* C14: in a run that printed the summary, a repository printed with a    *)
(* check mark had its probe found in step 4, an SDK printed with a check  *)
(* mark had its check return True, and the banner "completado             *)
(* correctamente" is printed only if no package install raised, step 4    *)
(* set all_ok and both SDK checks returned True.                          *)
C14_SummaryAggregatesOutcomes ==
    summary =>
        /\ \A i \in Repos : required_files[i].name \in report.ok => ProbeFound(i)
        /\ \A s \in SDKs : SummaryLine(s) \in report.ok => Installed(s) = "True"
        /\ report.completed =>
               /\ \A k \in 1 .. Len(pkgLog) : pkgLog[k].outcome # "raised"
               /\ all_ok
               /\ \A s \in SDKs : Installed(s) = "True"
=============================================================================
